---- MODULE Spec2Model ----
(***************************************************************************)
(* State-machine model of the retrieval engine of padalayai:               *)
(*   - MCPClient (services/mcpClient.js): the start-up handshake of the    *)
(*     tool worker and the JSON-RPC channel over its stdin/stdout pipes;   *)
(*   - RAGService (services/ragService.js): the vector store with its      *)
(*     remote (ChromaDB) and in-process backends, and the query pipeline.  *)
(***************************************************************************)
EXTENDS Integers, Sequences, FiniteSets, TLC

\* ------------------------------------------------------------------------
\* Bounds of the model
\* ------------------------------------------------------------------------

\* calls (callTool / listTools) issued to the worker
MaxCalls == 3
\* lines the worker writes to its stdout over a run
MaxEmit == 2
\* records the in-process store is let grow to
MaxRecords == 3
\* queries answered over a run
MaxQueries == 1
\* characters of a text handed to the chunker
MaxText == 6
\* largest chunkSize option
MaxChunkSize == 5
\* largest chunkOverlap option
MaxOverlap == 5
\* calls of shutdown over a run
MaxShutdowns == 2

VARIABLES
    \* ---- MCPClient ----
    isInitialized,   \* this.isInitialized
    servers,         \* this.servers: is 'blogger-server' in the map
    isReady,         \* server.isReady
    messageId,       \* server.messageId
    proc,            \* the child process: "none", "failing", "running", "exited"
    killed,          \* childProcess.kill() has been called
    onData,          \* startServer's readiness listener is on stderr 'data'
    startTimer,      \* startServer's 10 s timer is armed
    stderrTail,      \* the previous stderr chunk ended with the marker's first half
    started,         \* settlement of startServer: "none","pending","resolved","rejected"
    firstEvent,      \* history: the first of the four handshake events that occurred
    calls,           \* id -> the promise, listener, timer and buffer of that call
    stdoutPipe,      \* bytes the worker has written and the client has not read
    emitted,         \* lines written by the worker so far
    \* ---- RAGService ----
    ragIsInitialized, \* this.isInitialized
    openai,          \* this.openai is set (an API key was configured)
    chroma,          \* this.chroma is set
    mcpClient,       \* this.mcpClient is set
    collection,      \* this.collection: a remote collection or an InMemoryVectorStore
    remoteStore,     \* the records held by the remote service, per collection name
    adds,            \* the addDocument calls in flight, per request handler
    queryHistory,    \* this.queryHistory, in insertion order
    ret,             \* what the operation completed by the last step returned
    \* ---- history of the store ----
    returnedIds,     \* ids of the chunks whose addDocument returned, not removed since
    memInstalls,     \* InMemoryVectorStore instances installed so far (2: two or more)
    removedDocs      \* documents added, then removed, and not added again since

mcpVars == <<isInitialized, servers, isReady, messageId, proc, killed, onData,
             startTimer, stderrTail, started, firstEvent, calls, stdoutPipe, emitted>>

storeVars == <<ragIsInitialized, openai, chroma, mcpClient, collection,
               remoteStore, adds, queryHistory, ret, returnedIds, memInstalls,
               removedDocs>>

\* the chunker (DocumentProcessor.chunkText): its arguments, the locals of
\* its loop and the array it returns.  Each entry of chunkList carries the
\* text pushed together with the window [from, to) it was sliced from.
VARIABLES inputText, chunkSize, chunkOverlap, start, chunkList, chunkPc

chunkVars == <<inputText, chunkSize, chunkOverlap, start, chunkList, chunkPc>>

\* DigitalPersonaService and the DocumentProcessor it shares with the other
\* services: the document table, the per-platform cache and sync times, the
\* locals of a syncSocialMediaContent call in flight, and the result object
\* queryDigitalPersona holds between ragService.query's return and its own
VARIABLES documents, socialMediaContent, lastSyncTime, sync, personaResult

personaVars == <<documents, socialMediaContent, lastSyncTime, sync, personaResult>>

vars == <<mcpVars, storeVars, chunkVars, personaVars>>

\* ------------------------------------------------------------------------
\* The wire: the worker's stdout is a sequence of symbols.  A response line
\* is  open(id, error) close nl ; a line that is no JSON value is  junk nl.
\* A read may end anywhere, also between open and close.
\* ------------------------------------------------------------------------

Open(id, error) == [t |-> "open", id |-> id, error |-> error]
Close == [t |-> "close", id |-> 0, error |-> FALSE]
Junk == [t |-> "junk", id |-> 0, error |-> FALSE]
NL == [t |-> "nl", id |-> 0, error |-> FALSE]

\* JSON.stringify(response) + '\n' as the worker writes it
ResponseLine(id, error) == <<Open(id, error), Close, NL>>

\* data.split('\n')
RECURSIVE split(_, _)
split(s, cur) ==
    IF s = <<>> THEN <<cur>>
    ELSE IF Head(s) = NL THEN <<cur>> \o split(Tail(s), <<>>)
    ELSE split(Tail(s), Append(cur, Head(s)))

\* JSON.parse(line): a value only when the text is one whole object
JSONparse(line) ==
    IF Len(line) = 2 /\ line[1].t = "open" /\ line[2] = Close
    THEN [ok |-> TRUE, id |-> line[1].id, error |-> line[1].error]
    ELSE [ok |-> FALSE, id |-> 0, error |-> FALSE]

\* leading and trailing white space, which JSON.parse accepts
RECURSIVE trimStart(_)
trimStart(s) == IF s # <<>> /\ Head(s) = NL THEN trimStart(Tail(s)) ELSE s

RECURSIVE trimEnd(_)
trimEnd(s) ==
    IF s # <<>> /\ s[Len(s)] = NL THEN trimEnd(SubSeq(s, 1, Len(s) - 1)) ELSE s

trim(s) == trimEnd(trimStart(s))

\* ------------------------------------------------------------------------
\* Promises: resolve and reject settle a pending promise and are no-ops on
\* a settled one; settles counts the invocations.
\* ------------------------------------------------------------------------

NoCall == [kind |-> "none", id |-> 0, st |-> "none", why |-> "none", by |-> 0,
           listener |-> FALSE, timer |-> FALSE, buf |-> <<>>, settles |-> 0]

resolve(c, by) ==
    IF c.st = "pending"
    THEN [c EXCEPT !.st = "resolved", !.why = "result", !.by = by,
                   !.settles = @ + 1]
    ELSE [c EXCEPT !.settles = @ + 1]

reject(c, why, by) ==
    IF c.st = "pending"
    THEN [c EXCEPT !.st = "rejected", !.why = why, !.by = by, !.settles = @ + 1]
    ELSE [c EXCEPT !.settles = @ + 1]

\* the first line of lines that parses to a response with this id, or 0
RECURSIVE firstMatch(_, _)
firstMatch(lines, id) ==
    IF lines = <<>> THEN 0
    ELSE IF trim(Head(lines)) # <<>> /\ JSONparse(Head(lines)).ok
              /\ JSONparse(Head(lines)).id = id
         THEN 1
         ELSE IF firstMatch(Tail(lines), id) = 0 THEN 0
              ELSE 1 + firstMatch(Tail(lines), id)

\* callTool's responseHandler, for one call, on one 'data' event
callToolResponseHandler(c, data) ==
    LET all == split(c.buf \o data, <<>>)
        lines == SubSeq(all, 1, Len(all) - 1)
        c1 == [c EXCEPT !.buf = all[Len(all)]]
        k == firstMatch(lines, c.id)
    IN  IF k = 0 THEN c1
        ELSE LET response == JSONparse(lines[k])
                 c2 == [c1 EXCEPT !.timer = FALSE, !.listener = FALSE]
             IN  IF response.error THEN reject(c2, "responseError", response.id)
                 ELSE resolve(c2, response.id)

\* listTools' responseHandler: it parses the chunk as it was read
listToolsResponseHandler(c, data) ==
    LET response == JSONparse(trim(data))
    IN  IF ~response.ok
        THEN reject([c EXCEPT !.listener = FALSE], "parseError", 0)
        ELSE IF response.id = c.id
             THEN LET c2 == [c EXCEPT !.listener = FALSE]
                  IN  IF response.error
                      THEN reject(c2, "responseError", response.id)
                      ELSE resolve(c2, response.id)
             ELSE c

\* server.stdout emits 'data': every registered listener gets the chunk
emitData(cs, data) ==
    [s \in DOMAIN cs |->
        IF ~cs[s].listener THEN cs[s]
        ELSE IF cs[s].kind = "callTool"
             THEN callToolResponseHandler(cs[s], data)
             ELSE listToolsResponseHandler(cs[s], data)]

\* the callback of callTool's timer, with the listener left registered
timeoutHandlerKeepsListener(c) == reject([c EXCEPT !.timer = FALSE], "timeout", 0)

\* the callback of callTool's 30 s timer
timeoutHandler(c) ==
    reject([c EXCEPT !.timer = FALSE, !.listener = FALSE], "timeout", 0)

\* the catch around JSON.stringify and stdin.write in callTool
writeCatch(c) ==
    reject([c EXCEPT !.timer = FALSE, !.listener = FALSE], "writeError", 0)

\* ------------------------------------------------------------------------
\* Init: the state after new MCPClient()
\* ------------------------------------------------------------------------

InitMCP ==
    /\ isInitialized = FALSE
    /\ servers = FALSE
    /\ isReady = FALSE
    /\ messageId = 0
    /\ proc = "none"
    /\ killed = FALSE
    /\ onData = FALSE
    /\ startTimer = FALSE
    /\ stderrTail = FALSE
    /\ started = "none"
    /\ firstEvent = "none"
    /\ calls = [s \in 1..MaxCalls |-> NoCall]
    /\ stdoutPipe = <<>>
    /\ emitted = 0

\* ------------------------------------------------------------------------
\* MCPClient.initialize -> startMCPServers -> startServer
\* ------------------------------------------------------------------------

\* startServer up to its await: spawn, register the server and the four
\* watchers.  spawn either starts the worker or will emit 'error'.
startServer ==
    /\ started = "none"
    /\ \E p \in {"running", "failing"} : proc' = p
    /\ servers' = TRUE
    /\ isReady' = FALSE
    /\ messageId' = 0
    /\ onData' = TRUE
    /\ startTimer' = TRUE
    /\ started' = "pending"
    /\ UNCHANGED <<isInitialized, killed, stderrTail, firstEvent, calls,
                   stdoutPipe, emitted>>
    /\ UNCHANGED <<storeVars, chunkVars, personaVars>>

\* Promise.race resolved: startServer returns, startMCPServers ends its loop
\* and initialize sets isInitialized.
raceResolve ==
    IF started = "pending"
    THEN started' = "resolved" /\ isInitialized' = TRUE /\ UNCHANGED killed
    ELSE UNCHANGED <<started, isInitialized, killed>>

\* the catch of startServer without its childProcess.kill()
raceRejectWithoutKill ==
    IF started = "pending"
    THEN started' = "rejected" /\ isInitialized' = TRUE /\ UNCHANGED killed
    ELSE UNCHANGED <<started, isInitialized, killed>>

\* Promise.race rejected: the catch kills the child and rethrows;
\* startMCPServers logs the failure and initialize still completes.
raceReject ==
    IF started = "pending"
    THEN started' = "rejected" /\ killed' = TRUE /\ isInitialized' = TRUE
    ELSE UNCHANGED <<started, isInitialized, killed>>

\* history of the handshake: the first event wins the race
noteEvent(e) == firstEvent' = IF firstEvent = "none" THEN e ELSE firstEvent

\* A chunk on the worker's stderr.  whole: the chunk holds the marker
\* 'server running'; head / tail: the marker is cut by the chunk boundary,
\* so that neither chunk includes it.
StderrData(chunk) ==
    /\ proc = "running"
    /\ chunk = "tail" => stderrTail
    /\ stderrTail' = (chunk = "head")
    /\ IF onData /\ chunk = "whole"
       THEN isReady' = TRUE /\ onData' = FALSE /\ raceResolve /\ noteEvent("ready")
       ELSE UNCHANGED <<isReady, onData, started, isInitialized, killed, firstEvent>>
    /\ UNCHANGED <<servers, messageId, proc, startTimer, calls, stdoutPipe, emitted>>
    /\ UNCHANGED <<storeVars, chunkVars, personaVars>>

\* childProcess 'error': the spawn failed
SpawnError ==
    /\ proc = "failing"
    /\ proc' = "exited"
    /\ raceReject
    /\ noteEvent("error")
    /\ UNCHANGED <<servers, isReady, messageId, onData, startTimer, stderrTail,
                   calls, stdoutPipe, emitted>>
    /\ UNCHANGED <<storeVars, chunkVars, personaVars>>

\* childProcess 'exit'
ProcessExit ==
    /\ proc = "running"
    /\ proc' = "exited"
    /\ IF ~isReady THEN raceReject
       ELSE UNCHANGED <<started, isInitialized, killed>>
    /\ noteEvent("exit")
    /\ UNCHANGED <<servers, isReady, messageId, onData, startTimer, stderrTail,
                   calls, stdoutPipe, emitted>>
    /\ UNCHANGED <<storeVars, chunkVars, personaVars>>

\* the 10 s timer of startServer
StartTimeout ==
    /\ startTimer
    /\ startTimer' = FALSE
    /\ IF ~isReady THEN raceReject
       ELSE UNCHANGED <<started, isInitialized, killed>>
    /\ noteEvent("timeout")
    /\ UNCHANGED <<servers, isReady, messageId, proc, onData, stderrTail,
                   calls, stdoutPipe, emitted>>
    /\ UNCHANGED <<storeVars, chunkVars, personaVars>>

\* ------------------------------------------------------------------------
\* MCPClient.callTool / listTools
\* ------------------------------------------------------------------------

\* callTool past its three guards.  write: the outcome of JSON.stringify and
\* stdin.write: "ok", or "throw" when one of them throws.
callTool(write) ==
    /\ isInitialized /\ servers /\ isReady
    /\ messageId < MaxCalls
    /\ messageId' = messageId + 1
    /\ LET c == [NoCall EXCEPT !.kind = "callTool", !.id = messageId + 1,
                               !.st = "pending", !.listener = TRUE,
                               !.timer = TRUE]
       IN  calls' = [calls EXCEPT ![messageId + 1] =
                IF write = "throw" THEN writeCatch(c) ELSE c]
    /\ UNCHANGED <<isInitialized, servers, isReady, proc, killed, onData,
                   startTimer, stderrTail, started, firstEvent, stdoutPipe,
                   emitted>>
    /\ UNCHANGED <<storeVars, chunkVars, personaVars>>

\* the 30 s timer of one callTool fires
callToolTimeout(s) ==
    /\ calls[s].timer
    /\ calls' = [calls EXCEPT ![s] = timeoutHandler(@)]
    /\ UNCHANGED <<isInitialized, servers, isReady, messageId, proc, killed,
                   onData, startTimer, stderrTail, started, firstEvent,
                   stdoutPipe, emitted>>
    /\ UNCHANGED <<storeVars, chunkVars, personaVars>>

\* listTools past its two guards: no timer is set.  A throw of stdin.write
\* inside the promise executor rejects the promise; the listener is already
\* registered and stays.
listTools(write) ==
    /\ isInitialized /\ servers
    /\ messageId < MaxCalls
    /\ messageId' = messageId + 1
    /\ LET c == [NoCall EXCEPT !.kind = "listTools", !.id = messageId + 1,
                               !.st = "pending", !.listener = TRUE]
       IN  calls' = [calls EXCEPT ![messageId + 1] =
                IF write = "throw" THEN reject(c, "writeError", 0) ELSE c]
    /\ UNCHANGED <<isInitialized, servers, isReady, proc, killed, onData,
                   startTimer, stderrTail, started, firstEvent, stdoutPipe,
                   emitted>>
    /\ UNCHANGED <<storeVars, chunkVars, personaVars>>

\* ------------------------------------------------------------------------
\* The worker and the pipe
\* ------------------------------------------------------------------------

\* the worker writes one response line; id 0 is an id no call ever has
WorkerRespond(id, error) ==
    /\ proc = "running"
    /\ emitted < MaxEmit
    /\ id \in 0..messageId
    /\ emitted' = emitted + 1
    /\ stdoutPipe' = stdoutPipe \o ResponseLine(id, error)
    /\ UNCHANGED <<isInitialized, servers, isReady, messageId, proc, killed,
                   onData, startTimer, stderrTail, started, firstEvent, calls>>
    /\ UNCHANGED <<storeVars, chunkVars, personaVars>>

\* the worker writes a line that is no JSON value
WorkerJunk ==
    /\ proc = "running"
    /\ emitted < MaxEmit
    /\ emitted' = emitted + 1
    /\ stdoutPipe' = stdoutPipe \o <<Junk, NL>>
    /\ UNCHANGED <<isInitialized, servers, isReady, messageId, proc, killed,
                   onData, startTimer, stderrTail, started, firstEvent, calls>>
    /\ UNCHANGED <<storeVars, chunkVars, personaVars>>

\* one read of the pipe: the first n bytes arrive as one 'data' event
StdoutData(n) ==
    /\ n \in 1..Len(stdoutPipe)
    /\ calls' = emitData(calls, SubSeq(stdoutPipe, 1, n))
    /\ stdoutPipe' = SubSeq(stdoutPipe, n + 1, Len(stdoutPipe))
    /\ UNCHANGED <<isInitialized, servers, isReady, messageId, proc, killed,
                   onData, startTimer, stderrTail, started, firstEvent, emitted>>
    /\ UNCHANGED <<storeVars, chunkVars, personaVars>>

\* ------------------------------------------------------------------------
\* RAGService: the vector store
\* ------------------------------------------------------------------------

\* the documents handed to addDocument, and documentInfo.chunks of each
Docs == {"d1", "d2"}
chunksOf(d) == IF d = "d1" THEN <<"d1_0", "d1_1">> ELSE <<"d2_0">>
chunkIds(d) == {chunksOf(d)[i] : i \in 1..Len(chunksOf(d))}
AllChunks == <<"d1_0", "d1_1", "d2_0">>

\* the request handlers that may run addDocument at the same time
Procs == {"p1", "p2"}

\* the query texts; "q0" holds no word, so its hash embedding is the zero vector
QueryTexts == {"q1", "q0"}

\* direction of the vector generateSimpleEmbedding computes for each text
localVector(text) ==
    CASE text = "d1_0" -> <<1, 0>>
      [] text = "d1_1" -> <<1, 1>>
      [] text = "d2_0" -> <<0, 1>>
      [] text = "q1" -> <<1, 0>>
      [] OTHER -> <<0, 0>>

\* direction of the vector the embeddings API returns for each text; it has
\* another length than the fallback's, and components of either sign
remoteVector(text) ==
    CASE text = "d1_0" -> <<1, 0, 0>>
      [] text = "d1_1" -> <<1, 1, 1>>
      [] text = "d2_0" -> <<-1, 0, 1>>
      [] text = "q1" -> <<1, 1, 0>>
      [] OTHER -> <<0, 1, 0>>

\* generateEmbedding: the API's vector when a client is set and the call
\* succeeds, else the fallback's
generateEmbedding(text, apiOk) ==
    IF openai /\ apiOk THEN [prov |-> "remote", vec |-> remoteVector(text)]
    ELSE [prov |-> "local", vec |-> localVector(text)]

\* the embedding stored with a record
vectorOf(rec) ==
    IF rec.prov = "remote" THEN remoteVector(rec.id) ELSE localVector(rec.id)

\* ids / embeddings / metadatas built by addDocument for one document
recordsOf(d, apiOk) ==
    [i \in 1..Len(chunksOf(d)) |->
        [id |-> chunksOf(d)[i], documentId |-> d,
         prov |-> generateEmbedding(chunksOf(d)[i], apiOk).prov]]

RemoteCollection(name) == [kind |-> "remote", name |-> name, documents |-> <<>>]

\* new InMemoryVectorStore()
InMemoryVectorStore == [kind |-> "memory", name |-> "", documents |-> <<>>]

\* InMemoryVectorStore.addDocuments
addDocuments(store, recs) == [store EXCEPT !.documents = @ \o recs]

\* InMemoryVectorStore.removeDocument, were it to stop at the first record of
\* the document
RECURSIVE removeFirstOfDocument(_, _)
removeFirstOfDocument(docs, d) ==
    IF docs = <<>> THEN <<>>
    ELSE IF Head(docs).documentId = d THEN Tail(docs)
    ELSE <<Head(docs)>> \o removeFirstOfDocument(Tail(docs), d)

\* InMemoryVectorStore.removeDocument
RECURSIVE removeByDocument(_, _)
removeByDocument(docs, d) ==
    IF docs = <<>> THEN <<>>
    ELSE IF Head(docs).documentId = d THEN removeByDocument(Tail(docs), d)
    ELSE <<Head(docs)>> \o removeByDocument(Tail(docs), d)

\* the remote service's add: a record whose id it holds already is ignored
remoteAdd(held, recs) ==
    held \cup {recs[k] : k \in {j \in 1..Len(recs) :
                                  \A h \in held : h.id # recs[j].id}}

idsOf(recs) == {recs[k].id : k \in 1..Len(recs)}

\* sum and dot product of integer vectors
RECURSIVE dot(_, _)
dot(a, b) == IF a = <<>> THEN 0 ELSE Head(a) * Head(b) + dot(Tail(a), Tail(b))

\* the greatest x in lo..hi with x * x * n <= q
RECURSIVE rootBetween(_, _, _, _)
rootBetween(lo, hi, q, n) ==
    IF lo >= hi THEN lo
    ELSE LET mid == (lo + hi + 1) \div 2
         IN IF mid * mid * n <= q THEN rootBetween(mid, hi, q, n)
            ELSE rootBetween(lo, mid - 1, q, n)

\* dotProduct / (Math.sqrt(normA) * Math.sqrt(normB)) in hundredths (truncated)
quotient(d, n) ==
    LET r == rootBetween(0, 100, 10000 * d * d, n)
    IN IF d < 0 THEN 0 - r ELSE r

\* InMemoryVectorStore.cosineSimilarity, in hundredths; nan tells that the
\* quotient is 0/0
cosineSimilarity(a, b) ==
    IF Len(a) # Len(b) THEN [nan |-> FALSE, v |-> 0]
    ELSE IF dot(a, a) * dot(b, b) = 0 THEN [nan |-> TRUE, v |-> 0]
    ELSE [nan |-> FALSE, v |-> quotient(dot(a, b), dot(a, a) * dot(b, b))]

Number(v) == [nan |-> FALSE, v |-> v]

\* results.sort((a, b) => b.similarity - a.similarity): an element moves
\* ahead of another only when the comparator is negative, which it never is
\* when either similarity is NaN
RECURSIVE insertBySimilarity(_, _)
insertBySimilarity(sorted, x) ==
    IF sorted = <<>> THEN <<x>>
    ELSE IF ~x.similarity.nan /\ ~Head(sorted).similarity.nan
            /\ x.similarity.v > Head(sorted).similarity.v
         THEN <<x>> \o sorted
         ELSE <<Head(sorted)>> \o insertBySimilarity(Tail(sorted), x)

RECURSIVE sortBySimilarity(_, _)
sortBySimilarity(sorted, rest) ==
    IF rest = <<>> THEN sorted
    ELSE sortBySimilarity(insertBySimilarity(sorted, Head(rest)), Tail(rest))

slice(seq, n) == SubSeq(seq, 1, IF n < Len(seq) THEN n ELSE Len(seq))

RECURSIVE filterByDocuments(_, _)
filterByDocuments(docs, documentIds) ==
    IF docs = <<>> THEN <<>>
    ELSE IF documentIds = {} \/ Head(docs).documentId \in documentIds
         THEN <<Head(docs)>> \o filterByDocuments(Tail(docs), documentIds)
         ELSE filterByDocuments(Tail(docs), documentIds)

\* the result object of InMemoryVectorStore.search, from the sorted results
searchResult(sorted, maxResults) ==
    [status |-> "ok",
     chunks |-> slice(sorted, maxResults),
     documentsSearched |-> Cardinality({sorted[k].documentId : k \in 1..Len(sorted)})]

\* candidates.map(doc => ({...doc, similarity: cosineSimilarity(...)}))
withSimilarity(candidates, queryEmbedding) ==
    [k \in 1..Len(candidates) |->
        [id |-> candidates[k].id,
         documentId |-> candidates[k].documentId,
         similarity |-> cosineSimilarity(queryEmbedding, vectorOf(candidates[k]))]]

\* InMemoryVectorStore.search
search(store, queryEmbedding, documentIds, maxResults) ==
    searchResult(
        sortBySimilarity(<<>>,
            withSimilarity(filterByDocuments(store.documents, documentIds),
                           queryEmbedding)),
        maxResults)

\* what collection.query answers: the records of the collection that pass
\* the where clause, nResults at most, each at the distance the service
\* reports
RECURSIVE heldInOrder(_, _)
heldInOrder(held, order) ==
    IF order = <<>> THEN <<>>
    ELSE IF \E h \in held : h.id = Head(order)
         THEN <<CHOOSE h \in held : h.id = Head(order)>> \o heldInOrder(held, Tail(order))
         ELSE heldInOrder(held, Tail(order))

\* searchSimilarChunks: remote.ok tells whether collection.query answered
searchSimilarChunks(embedding, documentIds, maxResults, remote) ==
    IF collection.kind = "remote"
    THEN IF remote.ok
         THEN LET found == slice(filterByDocuments(
                                heldInOrder(remoteStore[collection.name], AllChunks),
                                documentIds), maxResults)
                  results == [k \in 1..Len(found) |->
                                [id |-> found[k].id,
                                 documentId |-> found[k].documentId,
                                 similarity |-> Number(100 - remote.distance)]]
              IN [status |-> "ok", chunks |-> results,
                  documentsSearched |->
                      Cardinality({results[k].documentId : k \in 1..Len(results)})]
         ELSE [status |-> "threw", chunks |-> <<>>, documentsSearched |-> 0]
    ELSE search(collection, embedding.vec, documentIds, maxResults)

NoAdd == [pc |-> "idle", doc |-> "", apiOk |-> FALSE, target |-> ""]
NoRet == [op |-> "none"]

InitStore ==
    /\ ragIsInitialized = FALSE
    /\ openai = FALSE
    /\ chroma = FALSE
    /\ mcpClient = FALSE
    /\ collection = [kind |-> "none", name |-> "", documents |-> <<>>]
    /\ remoteStore = [n \in {"padalayai_documents", "padalayai_documents_new"} |-> {}]
    /\ adds = [p \in Procs |-> NoAdd]
    /\ queryHistory = <<>>
    /\ ret = NoRet
    /\ returnedIds = {}
    /\ memInstalls = 0
    /\ removedDocs = {}

\* history: one more InMemoryVectorStore was installed
noteInstall == memInstalls' = IF memInstalls < 2 THEN memInstalls + 1 ELSE 2

\* RAGService.initialize, called once at startup: with or without an API
\* key; ChromaDB answers, or it fails or times out and the in-process store
\* is installed
RAGinitialize(apiKey, chromaUp) ==
    /\ ~ragIsInitialized
    /\ ragIsInitialized' = TRUE
    /\ openai' = apiKey
    /\ chroma' = chromaUp
    /\ IF chromaUp
       THEN /\ collection' = RemoteCollection("padalayai_documents")
            /\ UNCHANGED memInstalls
       ELSE /\ collection' = InMemoryVectorStore
            /\ noteInstall
    /\ ret' = NoRet
    /\ UNCHANGED <<mcpClient, remoteStore, adds, queryHistory, returnedIds>>
    /\ UNCHANGED removedDocs
    /\ UNCHANGED <<mcpVars, chunkVars, personaVars>>

\* RAGService.setMCPClient
setMCPClient ==
    /\ ragIsInitialized /\ ~mcpClient
    /\ mcpClient' = TRUE
    /\ ret' = NoRet
    /\ UNCHANGED <<ragIsInitialized, openai, chroma, collection, remoteStore, adds,
                   queryHistory, returnedIds, memInstalls>>
    /\ UNCHANGED removedDocs
    /\ UNCHANGED <<mcpVars, chunkVars, personaVars>>

\* the records of the addDocument call that handler p runs
recsOf(p) == recordsOf(adds[p].doc, adds[p].apiOk)

\* addDocument returns to its caller
addReturns(p) ==
    /\ adds' = [adds EXCEPT ![p] = NoAdd]
    /\ returnedIds' = returnedIds \cup idsOf(recsOf(p))
    /\ ret' = [op |-> "addDocument", status |-> "ok", doc |-> adds[p].doc]

\* the fallbacks of addDocument: this.collection = new InMemoryVectorStore(),
\* then addDocuments with the call's records
fallBackToMemory(p) ==
    /\ collection' = addDocuments(InMemoryVectorStore, recsOf(p))
    /\ noteInstall
    /\ addReturns(p)

\* addDocument up to its first await on the store: the embeddings are made,
\* then the records go to collection.add (remote) or to addDocuments
addDocument(p, d, apiOk) ==
    /\ ragIsInitialized
    /\ adds[p].pc = "idle"
    /\ IF collection.kind = "remote"
       THEN /\ adds' = [adds EXCEPT ![p] =
                    [pc |-> "add", doc |-> d, apiOk |-> apiOk,
                     target |-> collection.name]]
            /\ ret' = NoRet
            /\ UNCHANGED <<collection, returnedIds>>
       ELSE /\ Len(collection.documents) + Len(chunksOf(d)) <= MaxRecords
            /\ collection' = addDocuments(collection, recordsOf(d, apiOk))
            /\ returnedIds' = returnedIds \cup chunkIds(d)
            /\ ret' = [op |-> "addDocument", status |-> "ok", doc |-> d]
            /\ UNCHANGED adds
    /\ UNCHANGED <<ragIsInitialized, openai, chroma, mcpClient, remoteStore,
                   queryHistory, memInstalls>>
    /\ removedDocs' = removedDocs \ {d}
    /\ UNCHANGED <<mcpVars, chunkVars, personaVars>>

\* the remote add of addDocument settles: "ok", a corruption-class error
\* ("corrupt": the message holds 'compaction' or 'log store'), or any other
\* error
addSettles(p, outcome) ==
    /\ adds[p].pc = "add"
    /\ CASE outcome = "ok" ->
              /\ remoteStore' = [remoteStore EXCEPT ![adds[p].target] =
                                    remoteAdd(@, recsOf(p))]
              /\ addReturns(p)
              /\ UNCHANGED <<collection, memInstalls>>
         [] outcome = "corrupt" ->
              \* this.chroma.getOrCreateCollection('padalayai_documents_new')
              /\ adds' = [adds EXCEPT ![p].pc = "recreate"]
              /\ ret' = NoRet
              /\ UNCHANGED <<collection, remoteStore, returnedIds, memInstalls>>
         [] OTHER ->
              /\ fallBackToMemory(p)
              /\ UNCHANGED remoteStore
    /\ UNCHANGED <<ragIsInitialized, openai, chroma, mcpClient, queryHistory>>
    /\ UNCHANGED removedDocs
    /\ UNCHANGED <<mcpVars, chunkVars, personaVars>>

\* getOrCreateCollection of the recovery settles; on success the new
\* collection is installed and the add is retried on it
recreateSettles(p, ok) ==
    /\ adds[p].pc = "recreate"
    /\ IF ok
       THEN /\ collection' = RemoteCollection("padalayai_documents_new")
            /\ adds' = [adds EXCEPT ![p].pc = "retry",
                                    ![p].target = "padalayai_documents_new"]
            /\ ret' = NoRet
            /\ UNCHANGED <<returnedIds, memInstalls>>
       ELSE fallBackToMemory(p)
    /\ UNCHANGED <<ragIsInitialized, openai, chroma, mcpClient, remoteStore,
                   queryHistory>>
    /\ UNCHANGED removedDocs
    /\ UNCHANGED <<mcpVars, chunkVars, personaVars>>

\* the retried add settles: "ok" or an error of any kind
retrySettles(p, outcome) ==
    /\ adds[p].pc = "retry"
    /\ IF outcome = "ok"
       THEN /\ remoteStore' = [remoteStore EXCEPT ![adds[p].target] =
                                  remoteAdd(@, recsOf(p))]
            /\ addReturns(p)
            /\ UNCHANGED <<collection, memInstalls>>
       ELSE /\ fallBackToMemory(p)
            /\ UNCHANGED remoteStore
    /\ UNCHANGED <<ragIsInitialized, openai, chroma, mcpClient, queryHistory>>
    /\ UNCHANGED removedDocs
    /\ UNCHANGED <<mcpVars, chunkVars, personaVars>>

\* removeDocument: collection.delete on the remote collection ("ok" or it
\* throws), removeDocument on the in-process store
removeDocument(d, remoteOk) ==
    /\ ragIsInitialized
    /\ IF collection.kind = "remote"
       THEN /\ IF remoteOk
               THEN /\ remoteStore' = [remoteStore EXCEPT ![collection.name] =
                                          {h \in @ : h.documentId # d}]
                    /\ returnedIds' = returnedIds \ chunkIds(d)
                    /\ ret' = [op |-> "removeDocument", status |-> "ok", doc |-> d]
               ELSE /\ ret' = [op |-> "removeDocument", status |-> "threw", doc |-> d]
                    /\ UNCHANGED <<remoteStore, returnedIds>>
            /\ UNCHANGED collection
       ELSE /\ collection' = [collection EXCEPT !.documents = removeByDocument(@, d)]
            /\ returnedIds' = returnedIds \ chunkIds(d)
            /\ ret' = [op |-> "removeDocument", status |-> "ok", doc |-> d]
            /\ UNCHANGED remoteStore
    /\ UNCHANGED <<ragIsInitialized, openai, chroma, mcpClient, adds, queryHistory,
                   memInstalls>>
    /\ removedDocs' = IF /\ ret'.status = "ok"
                         /\ chunkIds(d) \cap returnedIds # {}
                         /\ \A p \in Procs : adds[p].doc # d
                      THEN removedDocs \cup {d} ELSE removedDocs
    /\ UNCHANGED <<mcpVars, chunkVars, personaVars>>

\* a caller of searchSimilarChunks (semanticSearch without its threshold):
\* the query text is embedded and the store is searched
searchChunks(q, apiOk, documentIds, maxResults, remote) ==
    /\ ragIsInitialized
    /\ LET r == searchSimilarChunks(generateEmbedding(q, apiOk), documentIds,
                                    maxResults, remote)
       IN ret' = [op |-> "search", status |-> r.status, chunks |-> r.chunks,
                  documentsSearched |-> r.documentsSearched,
                  documentIds |-> documentIds, maxResults |-> maxResults]
    /\ UNCHANGED <<ragIsInitialized, openai, chroma, mcpClient, collection,
                   remoteStore, adds, queryHistory, returnedIds, memInstalls>>
    /\ UNCHANGED removedDocs
    /\ UNCHANGED <<mcpVars, chunkVars, personaVars>>

\* getMCPContext, were it to keep an item of a payload it cannot parse
getMCPContextKeepsUnparsed(mcp) ==
    IF mcpClient /\ mcp \in {"posts", "unparseable"}
    THEN <<[id |-> "blogger-1", documentId |-> "blogger-1", similarity |-> Number(80),
            platform |-> "blogger"]>>
    ELSE <<>>

\* getMCPContext: no client, or the tool call failed (callMCPTool returns
\* null), or its text is no JSON, or it lists posts; one post is listed here
getMCPContext(mcp) ==
    IF mcpClient /\ mcp = "posts"
    THEN <<[id |-> "blogger-1", documentId |-> "blogger-1", similarity |-> Number(80),
            platform |-> "blogger"]>>
    ELSE <<>>

\* generateAnswer: the model's answer when a client is set and the call
\* succeeds, else generateSimpleAnswer's
generateAnswer(context, llmOk) ==
    IF openai /\ llmOk THEN "generated"
    ELSE IF context = <<>> THEN "nothing found" ELSE "extract"

\* chunk.similarity || dflt
orElse(similarity, dflt) ==
    IF similarity.nan \/ similarity.v = 0 THEN dflt ELSE similarity.v

RECURSIVE sumSimilarity(_)
sumSimilarity(chunks) ==
    IF chunks = <<>> THEN 0
    ELSE orElse(Head(chunks).similarity, 0) + sumSimilarity(Tail(chunks))

\* calculateConfidence, in hundredths: Math.round of the mean
calculateConfidence(chunks) ==
    IF chunks = <<>> THEN 0
    ELSE (2 * sumSimilarity(chunks) + Len(chunks)) \div (2 * Len(chunks))

\* chunk.metadata?.platform || chunk.platform: the store's metadata carries
\* no platform, a tool post carries its own
platformOf(chunk) ==
    IF "platform" \in DOMAIN chunk THEN chunk.platform ELSE "undefined"

\* uuidv4(): an id no stored record carries
nextId == IF queryHistory = <<>> THEN 1 ELSE queryHistory[Len(queryHistory)].id + 1

\* the QueryRecord that query builds from the search result and the tool
\* context (sources, confidence, counts), with the call's arguments
queryRecord(q, documentIds, maxResults, mcp, llmOk, searchResults, allContext, mcpContext) ==
    [op |-> "query", status |-> "ok",
     id |-> nextId,
     query |-> q,
     answer |-> generateAnswer(allContext, llmOk),
     sources |-> [k \in 1..Len(slice(allContext, maxResults)) |->
                     [id |-> allContext[k].id,
                      similarity |-> orElse(allContext[k].similarity, 100),
                      platform |-> platformOf(allContext[k])]],
     confidence |-> calculateConfidence(allContext),
     documentsSearched |-> searchResults.documentsSearched,
     mcpSourcesUsed |-> Len(mcpContext),
     \* the arguments and the context handed to generateAnswer
     documentIds |-> documentIds,
     mcp |-> mcp,
     context |-> allContext]

\* query after its search: the tool context is fetched, the answer generated,
\* the record saved to the history and returned; a failed search is rethrown
queryAfterSearch(q, documentIds, maxResults, mcp, llmOk, searchResults) ==
    IF searchResults.status = "threw"
    THEN \* the error leaves query before getMCPContext is reached
         /\ ret' = [op |-> "query", status |-> "threw", query |-> q,
                    documentIds |-> documentIds, mcp |-> "notCalled"]
         /\ UNCHANGED queryHistory
    ELSE /\ ret' = queryRecord(q, documentIds, maxResults, mcp, llmOk, searchResults,
                               searchResults.chunks \o getMCPContext(mcp),
                               getMCPContext(mcp))
         /\ queryHistory' = Append(queryHistory,
               [id |-> ret'.id, query |-> q, confidence |-> ret'.confidence,
                sources |-> ret'.sources])

\* RAGService.query on an initialized service
query(q, apiOk, documentIds, maxResults, remote, mcp, llmOk) ==
    /\ ragIsInitialized
    /\ Len(queryHistory) < MaxQueries
    /\ queryAfterSearch(q, documentIds, maxResults, mcp, llmOk,
           searchSimilarChunks(generateEmbedding(q, apiOk), documentIds,
                               maxResults * 2, remote))
    /\ UNCHANGED <<ragIsInitialized, openai, chroma, mcpClient, collection,
                   remoteStore, adds, returnedIds, memInstalls>>
    /\ UNCHANGED removedDocs
    /\ UNCHANGED <<mcpVars, chunkVars, personaVars>>

\* ------------------------------------------------------------------------
\* The chunker: DocumentProcessor.chunkText (DigitalPersonaService carries
\* an identical copy).  A text is a sequence of characters and positions are
\* the code's, counted from 0.

Chars == {"a", ".", " ", "\n"}

\* what String.prototype.trim removes
Whitespace == {" ", "\n"}

Texts == UNION {[1..n -> Chars] : n \in 0..MaxText}

\* the default of the separators option, in the order it is tried
separators == << <<"\n", "\n">>, <<"\n">>, <<".", " ">>, <<" ">> >>

Min(a, b) == IF a < b THEN a ELSE b

Max(a, b) == IF a > b THEN a ELSE b

\* text.slice(from, to) for 0 <= from <= to <= text.length
textSlice(t, from, to) == SubSeq(t, from + 1, to)

\* text.lastIndexOf(separator, position): the greatest index not above
\* position at which the separator starts, -1 when there is none
lastIndexOf(t, separator, position) ==
    LET found == {i \in 0..position :
                     /\ i + Len(separator) <= Len(t)
                     /\ textSlice(t, i, i + Len(separator)) = separator}
    IN  IF found = {} THEN -1
        ELSE CHOOSE i \in found : \A j \in found : j <= i

\* the for-loop over the separators: the first one found beyond the middle of
\* the window moves the cut behind it; lastIndex > start + chunkSize * 0.5
RECURSIVE bestBreak(_, _, _, _, _)
bestBreak(seps, t, from, end, size) ==
    IF seps = <<>> THEN end
    ELSE IF 2 * lastIndexOf(t, Head(seps), end) > 2 * from + size
         THEN lastIndexOf(t, Head(seps), end) + Len(Head(seps))
         ELSE bestBreak(Tail(seps), t, from, end, size)

\* the end of the window that starts at from
windowEnd(t, from, size) ==
    IF Min(from + size, Len(t)) < Len(t)
    THEN bestBreak(separators, t, from, Min(from + size, Len(t)), size)
    ELSE Min(from + size, Len(t))

RECURSIVE trimLeading(_)
trimLeading(s) ==
    IF s # <<>> /\ Head(s) \in Whitespace THEN trimLeading(Tail(s)) ELSE s

RECURSIVE trimTrailing(_)
trimTrailing(s) ==
    IF s # <<>> /\ s[Len(s)] \in Whitespace
    THEN trimTrailing(SubSeq(s, 1, Len(s) - 1)) ELSE s

\* String.prototype.trim
strTrim(s) == trimTrailing(trimLeading(s))

\* a step that forgets the cut point of the window it has just taken
nextStartWithoutCut(from, end, size, overlap) == Max(from + size - overlap, from)

\* start = Math.max(start + chunkSize - chunkOverlap, end)
nextStart(from, end, size, overlap) == Max(from + size - overlap, end)

\* chunks.push(chunk) when the trimmed slice is not empty
pushChunk(list, t, from, end) ==
    IF Len(strTrim(textSlice(t, from, end))) > 0
    THEN Append(list, [from |-> from, to |-> end,
                       chunk |-> strTrim(textSlice(t, from, end))])
    ELSE list

\* no call of the chunker is in progress
InitChunkIdle ==
    /\ inputText = <<>>
    /\ chunkSize = 1
    /\ chunkOverlap = 0
    /\ start = 0
    /\ chunkList = <<>>
    /\ chunkPc = "idle"

\* chunkText(text, {chunkSize, chunkOverlap}) is entered: a text that fits
\* one chunk is returned as it is, any other goes through the loop
chunkText(t, size, overlap) ==
    /\ chunkPc = "idle"
    /\ inputText' = t
    /\ chunkSize' = size
    /\ chunkOverlap' = overlap
    /\ start' = 0
    /\ IF Len(t) <= size
       THEN /\ chunkList' = <<[from |-> 0, to |-> Len(t), chunk |-> t]>>
            /\ chunkPc' = "returned"
       ELSE /\ chunkList' = <<>>
            /\ chunkPc' = "loop"
    /\ UNCHANGED <<mcpVars, storeVars, personaVars>>

\* one turn of while (start < text.length)
chunkWindow ==
    /\ chunkPc = "loop"
    /\ start < Len(inputText)
    /\ chunkList' = pushChunk(chunkList, inputText, start, windowEnd(inputText, start, chunkSize))
    /\ start' = nextStart(start, windowEnd(inputText, start, chunkSize),
                          chunkSize, chunkOverlap)
    /\ UNCHANGED <<inputText, chunkSize, chunkOverlap, chunkPc>>
    /\ UNCHANGED <<mcpVars, storeVars, personaVars>>

\* the loop is left and chunks is returned
chunkReturn ==
    /\ chunkPc = "loop"
    /\ start >= Len(inputText)
    /\ chunkPc' = "returned"
    /\ UNCHANGED <<inputText, chunkSize, chunkOverlap, start, chunkList>>
    /\ UNCHANGED <<mcpVars, storeVars, personaVars>>

\* the platforms syncSocialMediaContent may be asked for; only 'blogger' has
\* a case in its switch
Platforms == {"blogger", "facebook"}

\* results[platform] before the platform is reported (null)
NullResult == [reported |-> FALSE, fetched |-> 0, processed |-> 0]

\* the results object syncSocialMediaContent starts from
NoResults == [blogger |-> NullResult, facebook |-> NullResult,
              totalProcessed |-> 0, errors |-> <<>>]

\* the persona service after construction: empty maps, nothing in flight.
\* failed is history: the platforms whose fetch or indexing has failed
\* during the call
NoSync == [pc |-> "idle", platforms |-> <<>>, rest |-> <<>>, results |-> NoResults,
           failed |-> {}]

InitPersona ==
    /\ documents = {}
    /\ socialMediaContent = {}
    /\ lastSyncTime = {}
    /\ sync = NoSync
    /\ personaResult = 0

Init == InitMCP /\ InitStore /\ InitChunkIdle /\ InitPersona

NextChunk ==
    \/ /\ chunkPc = "idle"
       /\ \E t \in Texts, size \in 1..MaxChunkSize, overlap \in 0..MaxOverlap :
              chunkText(t, size, overlap)
    \/ chunkWindow
    \/ chunkReturn

SpecChunk == Init /\ [][NextChunk]_vars


\* every event of the client and of its worker
NextMCP ==
    \/ startServer
    \/ \E chunk \in {"whole", "head", "tail", "other"} : StderrData(chunk)
    \/ SpawnError
    \/ ProcessExit
    \/ StartTimeout
    \/ \E write \in {"ok", "throw"} : callTool(write)
    \/ \E s \in 1..MaxCalls : callToolTimeout(s)
    \/ \E write \in {"ok", "throw"} : listTools(write)
    \/ \E id \in 0..MaxCalls, error \in BOOLEAN : WorkerRespond(id, error)
    \/ WorkerJunk
    \/ \E n \in 1..(3 * MaxEmit) : StdoutData(n)

SpecMCP == Init /\ [][NextMCP]_vars

\* the handshake and the calls it admits, the worker's stdout left aside
NextStart ==
    \/ startServer
    \/ \E chunk \in {"whole", "head", "tail", "other"} : StderrData(chunk)
    \/ SpawnError
    \/ ProcessExit
    \/ StartTimeout
    \/ \E write \in {"ok", "throw"} : callTool(write)
    \/ \E s \in 1..MaxCalls : callToolTimeout(s)
    \/ \E write \in {"ok", "throw"} : listTools(write)

SpecStart == Init /\ [][NextStart]_vars

\* the channel of a worker that became ready and stays up
NextRPC ==
    \/ startServer
    \/ \E chunk \in {"whole", "other"} : StderrData(chunk)
    \/ \E write \in {"ok", "throw"} : callTool(write)
    \/ \E s \in 1..MaxCalls : callToolTimeout(s)
    \/ \E write \in {"ok", "throw"} : listTools(write)
    \/ \E id \in 0..MaxCalls, error \in BOOLEAN : WorkerRespond(id, error)
    \/ WorkerJunk
    \/ \E n \in 1..(3 * MaxEmit) : StdoutData(n)

SpecRPC == Init /\ [][NextRPC]_vars

\* timers fire and pending pipe data is read; the worker owes nothing
FairRPC ==
    /\ SpecRPC
    /\ \A s \in 1..MaxCalls : WF_vars(callToolTimeout(s))
    /\ WF_vars(\E n \in 1..(3 * MaxEmit) : StdoutData(n))

\* ------------------------------------------------------------------------
\* RAGService: every operation of the store
\* ------------------------------------------------------------------------

\* what the remote service may answer to a query of the collection
RemoteAnswers ==
    IF collection.kind = "remote"
    THEN {[ok |-> FALSE, distance |-> 0]}
             \cup {[ok |-> TRUE, distance |-> x] : x \in {0, 10, 150}}
    ELSE {[ok |-> TRUE, distance |-> 0]}

ApiAnswers == IF openai THEN BOOLEAN ELSE {FALSE}

\* what the tool call of getMCPContext may come to
McpAnswers == IF mcpClient THEN {"failed", "unparseable", "posts"} ELSE {"noClient"}

NextStore ==
    \/ \E apiKey \in BOOLEAN, chromaUp \in BOOLEAN : RAGinitialize(apiKey, chromaUp)
    \/ setMCPClient
    \/ \E p \in Procs, d \in Docs, apiOk \in ApiAnswers : addDocument(p, d, apiOk)
    \/ \E p \in Procs, outcome \in {"ok", "corrupt", "other"} : addSettles(p, outcome)
    \/ \E p \in Procs, ok \in BOOLEAN : recreateSettles(p, ok)
    \/ \E p \in Procs, outcome \in {"ok", "corrupt", "other"} : retrySettles(p, outcome)
    \/ \E d \in Docs :
          \E remoteOk \in (IF collection.kind = "remote" THEN BOOLEAN ELSE {TRUE}) :
              removeDocument(d, remoteOk)
    \/ \E q \in QueryTexts, apiOk \in ApiAnswers, documentIds \in {{}, {"d1"}},
          maxResults \in {1, 10}, remote \in RemoteAnswers :
              searchChunks(q, apiOk, documentIds, maxResults, remote)
    \/ \E q \in QueryTexts, apiOk \in ApiAnswers, documentIds \in {{}, {"d1"}},
          maxResults \in {1, 5}, remote \in RemoteAnswers, mcp \in McpAnswers,
          llmOk \in ApiAnswers :
              query(q, apiOk, documentIds, maxResults, remote, mcp, llmOk)

SpecStore == Init /\ [][NextStore]_vars

\* ------------------------------------------------------------------------
\* RAGService without an API key, two request handlers adding at once
\* ------------------------------------------------------------------------

NextAdds ==
    \/ \E chromaUp \in BOOLEAN : RAGinitialize(FALSE, chromaUp)
    \/ \E p \in Procs, d \in Docs : addDocument(p, d, FALSE)
    \/ \E p \in Procs, outcome \in {"ok", "corrupt", "other"} : addSettles(p, outcome)
    \/ \E p \in Procs, ok \in BOOLEAN : recreateSettles(p, ok)
    \/ \E p \in Procs, outcome \in {"ok", "corrupt", "other"} : retrySettles(p, outcome)
    \/ \E d \in Docs :
          \E remoteOk \in (IF collection.kind = "remote" THEN BOOLEAN ELSE {TRUE}) :
              removeDocument(d, remoteOk)
    \/ \E documentIds \in {{}, {"d1"}}, remote \in RemoteAnswers :
          searchChunks("q1", FALSE, documentIds, 10, remote)

SpecAdds == Init /\ [][NextAdds]_vars

\* the same, the remote service failing every add with a corruption-class
\* error
NextCorrupt ==
    \/ RAGinitialize(FALSE, TRUE)
    \/ \E p \in Procs, d \in Docs : addDocument(p, d, FALSE)
    \/ \E p \in Procs : addSettles(p, "corrupt")
    \/ \E p \in Procs, ok \in BOOLEAN : recreateSettles(p, ok)
    \/ \E p \in Procs : retrySettles(p, "corrupt")
    \/ \E documentIds \in {{}, {"d1"}}, remote \in RemoteAnswers :
          searchChunks("q1", FALSE, documentIds, 10, remote)

SpecCorrupt == Init /\ [][NextCorrupt]_vars

\* ------------------------------------------------------------------------
\* RAGService without an API key, one request handler: no two addDocument
\* calls overlap
\* ------------------------------------------------------------------------

NextRecover ==
    \/ \E chromaUp \in BOOLEAN : RAGinitialize(FALSE, chromaUp)
    \/ \E d \in Docs : addDocument("p1", d, FALSE)
    \/ \E outcome \in {"ok", "corrupt", "other"} : addSettles("p1", outcome)
    \/ \E ok \in BOOLEAN : recreateSettles("p1", ok)
    \/ \E outcome \in {"ok", "corrupt", "other"} : retrySettles("p1", outcome)
    \/ \E d \in Docs :
          \E remoteOk \in (IF collection.kind = "remote" THEN BOOLEAN ELSE {TRUE}) :
              removeDocument(d, remoteOk)
    \/ \E documentIds \in {{}, {"d1"}}, remote \in RemoteAnswers :
          searchChunks("q1", FALSE, documentIds, 10, remote)

SpecRecover == Init /\ [][NextRecover]_vars

\* ------------------------------------------------------------------------
\* RAGService answering queries, one request handler adding documents
\* ------------------------------------------------------------------------

NextQuery ==
    \/ \E apiKey \in BOOLEAN, chromaUp \in BOOLEAN : RAGinitialize(apiKey, chromaUp)
    \/ setMCPClient
    \/ \E d \in Docs, apiOk \in ApiAnswers : addDocument("p1", d, apiOk)
    \/ \E outcome \in {"ok", "other"} : addSettles("p1", outcome)
    \/ \E d \in Docs :
          \E remoteOk \in (IF collection.kind = "remote" THEN BOOLEAN ELSE {TRUE}) :
              removeDocument(d, remoteOk)
    \/ \E q \in QueryTexts, apiOk \in ApiAnswers, documentIds \in {{}, {"d1"}},
          maxResults \in {1, 5}, remote \in RemoteAnswers, mcp \in McpAnswers,
          llmOk \in ApiAnswers :
              query(q, apiOk, documentIds, maxResults, remote, mcp, llmOk)

SpecQuery == Init /\ [][NextQuery]_vars

Next == NextMCP \/ NextStore

Spec == Init /\ [][Next]_vars

\* ------------------------------------------------------------------------
\* The entry points that run a query
\* ------------------------------------------------------------------------

\* the query texts a client may post: the empty text, a text of white space
\* only, a text with words
PostedTexts == {"", " ", "q1"}

\* String.prototype.trim
trimText(q) == IF q = " " THEN "" ELSE q

\* res.status(400).json(...): the request is answered with a validation
\* error and nothing else happens
reject400(entry, q) ==
    /\ ret' = [op |-> entry, status |-> "rejected", query |-> q]
    /\ UNCHANGED <<ragIsInitialized, openai, chroma, mcpClient, collection,
                   remoteStore, adds, queryHistory, returnedIds, memInstalls,
                   removedDocs>>
    /\ UNCHANGED <<mcpVars, chunkVars, personaVars>>

\* POST / of the query route: validateQuery (Joi string().min(1)), then the
\* handler's own test of the trimmed text, then ragService.query on the
\* trimmed text
postQuery(q, apiOk, documentIds, maxResults, remote, mcp, llmOk) ==
    IF Len(q) < 1 \/ Len(trimText(q)) = 0
    THEN ragIsInitialized /\ reject400("postQuery", q)
    ELSE query(trimText(q), apiOk, documentIds, maxResults, remote, mcp, llmOk)

\* POST /query of the digital-persona route: `!query` holds of the empty
\* text only; queryDigitalPersona hands the text on to ragService.query
personaQuery(q, apiOk, documentIds, maxResults, remote, mcp, llmOk) ==
    IF q = ""
    THEN ragIsInitialized /\ reject400("personaQuery", q)
    ELSE query(q, apiOk, documentIds, maxResults, remote, mcp, llmOk)

NextEntry ==
    \/ \E apiKey \in BOOLEAN, chromaUp \in BOOLEAN : RAGinitialize(apiKey, chromaUp)
    \/ setMCPClient
    \/ \E d \in Docs, apiOk \in ApiAnswers : addDocument("p1", d, apiOk)
    \/ \E outcome \in {"ok", "other"} : addSettles("p1", outcome)
    \/ \E q \in PostedTexts, documentIds \in {{}, {"d1"}}, remote \in RemoteAnswers,
          mcp \in McpAnswers :
              query(q, FALSE, documentIds, 5, remote, mcp, FALSE)
    \/ \E q \in PostedTexts, documentIds \in {{}, {"d1"}}, remote \in RemoteAnswers,
          mcp \in McpAnswers :
              postQuery(q, FALSE, documentIds, 5, remote, mcp, FALSE)
    \/ \E q \in PostedTexts, documentIds \in {{}, {"d1"}}, remote \in RemoteAnswers,
          mcp \in McpAnswers :
              personaQuery(q, FALSE, documentIds, 5, remote, mcp, FALSE)

SpecEntry == Init /\ [][NextEntry]_vars

\* ------------------------------------------------------------------------
\* RAGService searching the store, one request handler adding documents
\* ------------------------------------------------------------------------

NextSearch ==
    \/ \E apiKey \in BOOLEAN, chromaUp \in BOOLEAN : RAGinitialize(apiKey, chromaUp)
    \/ \E d \in Docs, apiOk \in ApiAnswers : addDocument("p1", d, apiOk)
    \/ \E outcome \in {"ok", "other"} : addSettles("p1", outcome)
    \/ \E d \in Docs :
          \E remoteOk \in (IF collection.kind = "remote" THEN BOOLEAN ELSE {TRUE}) :
              removeDocument(d, remoteOk)
    \/ \E q \in QueryTexts, apiOk \in ApiAnswers, documentIds \in {{}, {"d1"}},
          maxResults \in {1, 10}, remote \in RemoteAnswers :
              searchChunks(q, apiOk, documentIds, maxResults, remote)

SpecSearch == Init /\ [][NextSearch]_vars

\* ------------------------------------------------------------------------
\* MCPClient.shutdown
\* ------------------------------------------------------------------------

\* shutdowns since the last operation of the store
shutdownsSoFar == IF ret.op = "shutdown" THEN ret.nth ELSE 0

\* what a call of shutdown is seen to do: it returns (no throw leaves it),
\* having called kill once per server of the table
shutdownReturn ==
    [op |-> "shutdown", status |-> "ok", nth |-> shutdownsSoFar + 1,
     signals |-> IF servers THEN 1 ELSE 0]

\* a shutdown that forgets this.servers.clear()
shutdownKeepsTable ==
    /\ shutdownsSoFar < MaxShutdowns
    /\ killed' = (killed \/ servers)
    /\ isInitialized' = FALSE
    /\ ret' = shutdownReturn
    /\ UNCHANGED <<servers, isReady, messageId, proc, onData, startTimer,
                   stderrTail, started, firstEvent, calls, stdoutPipe, emitted>>
    /\ UNCHANGED <<ragIsInitialized, openai, chroma, mcpClient, collection,
                   remoteStore, adds, queryHistory, returnedIds, memInstalls,
                   removedDocs>>
    /\ UNCHANGED <<chunkVars, personaVars>>

\* shutdown: SIGTERM to the process of every server in the table (kill is
\* inside a try/catch and returns false for a process that has exited), then
\* servers.clear() and isInitialized = false.  The server object, its
\* listeners and the timers of pending calls are left as they are.
shutdown ==
    /\ shutdownsSoFar < MaxShutdowns
    /\ killed' = (killed \/ servers)
    /\ servers' = FALSE
    /\ isInitialized' = FALSE
    /\ ret' = shutdownReturn
    /\ UNCHANGED <<isReady, messageId, proc, onData, startTimer, stderrTail,
                   started, firstEvent, calls, stdoutPipe, emitted>>
    /\ UNCHANGED <<ragIsInitialized, openai, chroma, mcpClient, collection,
                   remoteStore, adds, queryHistory, returnedIds, memInstalls,
                   removedDocs>>
    /\ UNCHANGED <<chunkVars, personaVars>>

\* the life of one client: start, calls, exit of the worker, shutdown
NextShutdown ==
    \/ NextStart
    \/ shutdown

SpecShutdown == Init /\ [][NextShutdown]_vars

\* ------------------------------------------------------------------------
\* The query history: queryDigitalPersona and clearQueryHistory
\* ------------------------------------------------------------------------

\* extractPlatformInfo: a source of a QueryRecord has no metadata key, so
\* the platform it yields is 'document'
extractPlatformInfo(source) == [platform |-> "document"]

\* {...source, ...platformInfo}
withPlatformInfo(source) ==
    [source EXCEPT !.platform = extractPlatformInfo(source).platform]

\* the position in the history of the record with this id
recordAt(id) == CHOOSE k \in 1..Len(queryHistory) : queryHistory[k].id = id

\* queryDigitalPersona up to the return of ragService.query: the result it
\* holds is the object that query has stored in the history under its id;
\* an error of query leaves queryDigitalPersona as it is
queryDigitalPersona(q, apiOk, documentIds, maxResults, remote, mcp, llmOk) ==
    /\ ragIsInitialized
    /\ personaResult = 0
    /\ Len(queryHistory) < MaxQueries
    /\ queryAfterSearch(q, documentIds, maxResults, mcp, llmOk,
           searchSimilarChunks(generateEmbedding(q, apiOk), documentIds,
                               maxResults * 2, remote))
    /\ personaResult' = IF ret'.status = "ok" THEN ret'.id ELSE 0
    /\ UNCHANGED <<ragIsInitialized, openai, chroma, mcpClient, collection,
                   remoteStore, adds, returnedIds, memInstalls>>
    /\ UNCHANGED removedDocs
    /\ UNCHANGED <<documents, socialMediaContent, lastSyncTime, sync>>
    /\ UNCHANGED <<mcpVars, chunkVars>>

\* the rest of queryDigitalPersona: result.sources is assigned the sources
\* with their platform information, on the object the history holds, and
\* the result is returned
queryDigitalPersonaReturns ==
    /\ personaResult # 0
    /\ LET k == recordAt(personaResult)
           enhanced == [i \in DOMAIN queryHistory[k].sources |->
                           withPlatformInfo(queryHistory[k].sources[i])]
       IN /\ queryHistory' = [queryHistory EXCEPT ![k].sources = enhanced]
          /\ ret' = [op |-> "queryDigitalPersona", status |-> "ok",
                     id |-> personaResult, sources |-> enhanced]
    /\ personaResult' = 0
    /\ UNCHANGED <<ragIsInitialized, openai, chroma, mcpClient, collection,
                   remoteStore, adds, returnedIds, memInstalls>>
    /\ UNCHANGED removedDocs
    /\ UNCHANGED <<documents, socialMediaContent, lastSyncTime, sync>>
    /\ UNCHANGED <<mcpVars, chunkVars>>

\* clearQueryHistory: without a cutoff (0) every record is deleted, with one
\* the records older than it; a record's age is the order of its id
clearQueryHistory(cutoffDate) ==
    /\ queryHistory' = IF cutoffDate = 0 THEN <<>>
                       ELSE SelectSeq(queryHistory, LAMBDA r : r.id >= cutoffDate)
    /\ ret' = [op |-> "clearQueryHistory", status |-> "ok",
               deletedCount |-> Len(queryHistory) - Len(queryHistory')]
    /\ UNCHANGED <<ragIsInitialized, openai, chroma, mcpClient, collection,
                   remoteStore, adds, returnedIds, memInstalls>>
    /\ UNCHANGED removedDocs
    /\ UNCHANGED <<mcpVars, chunkVars, personaVars>>

\* queries through both entries and clears of the history.  The rest of
\* queryDigitalPersona runs as the continuation of its await, before any
\* other request is served.
NextHistory ==
    \/ \E apiKey \in BOOLEAN, chromaUp \in BOOLEAN : RAGinitialize(apiKey, chromaUp)
    \/ setMCPClient
    \/ /\ personaResult = 0
       /\ \E q \in QueryTexts, apiOk \in ApiAnswers, maxResults \in {1, 5},
             remote \in RemoteAnswers, mcp \in McpAnswers, llmOk \in ApiAnswers :
               query(q, apiOk, {}, maxResults, remote, mcp, llmOk)
    \/ \E q \in QueryTexts, apiOk \in ApiAnswers, maxResults \in {1, 5},
          remote \in RemoteAnswers, mcp \in McpAnswers, llmOk \in ApiAnswers :
            queryDigitalPersona(q, apiOk, {}, maxResults, remote, mcp, llmOk)
    \/ queryDigitalPersonaReturns
    \/ /\ personaResult = 0
       /\ \E cutoffDate \in 0..MaxQueries : clearQueryHistory(cutoffDate)

SpecHistory == Init /\ [][NextHistory]_vars

\* ------------------------------------------------------------------------
\* DigitalPersonaService: syncSocialMediaContent and removePlatformContent.
\* d1 is the unified document of the one blog post the tool lists (its
\* metadata.platform is 'blogger'), d2 a document uploaded by a user (no
\* platform in its metadata).
\* ------------------------------------------------------------------------

\* doc.metadata.platform of a document of the table
platformOfDoc(d) == IF d = "d1" THEN "blogger" ELSE "undefined"

\* DocumentProcessor.loadDocuments at start-up: the table is filled from
\* data/documents.json, written by an earlier run
loadDocuments(stored) ==
    /\ ~ragIsInitialized
    /\ documents = {}
    /\ documents' = stored
    /\ ret' = NoRet
    /\ UNCHANGED <<ragIsInitialized, openai, chroma, mcpClient, collection,
                   remoteStore, adds, queryHistory, returnedIds, memInstalls>>
    /\ UNCHANGED removedDocs
    /\ UNCHANGED <<socialMediaContent, lastSyncTime, sync, personaResult>>
    /\ UNCHANGED <<mcpVars, chunkVars>>

\* what callMCPTool('blogger-server', 'get_blog_posts') may do: throw for
\* want of a client or because the call failed, return a text that is no
\* JSON, a list of no posts, or a list of one post
FetchAnswers == {"noClient", "failed", "unparseable", "empty", "posts"}

\* fetchBloggerContent: the posts listed; every error is caught and [] is
\* returned in its place
fetchBloggerContent(answer) == IF answer = "posts" THEN <<"d1">> ELSE <<>>

\* does the try block of the sync loop throw: fetchBloggerContent and
\* processAndIndexContent catch every error themselves
syncBodyThrows(answer) == FALSE

\* syncSocialMediaContent up to its loop
syncSocialMediaContent(platforms) ==
    /\ ragIsInitialized
    /\ sync.pc = "idle"
    /\ sync' = [NoSync EXCEPT !.pc = "loop", !.platforms = platforms,
                              !.rest = platforms]
    /\ ret' = NoRet
    /\ UNCHANGED <<ragIsInitialized, openai, chroma, mcpClient, collection,
                   remoteStore, adds, queryHistory, returnedIds, memInstalls>>
    /\ UNCHANGED removedDocs
    /\ UNCHANGED <<documents, socialMediaContent, lastSyncTime, personaResult>>
    /\ UNCHANGED <<mcpVars, chunkVars>>

\* one turn of the loop up to processAndIndexContent: a platform without a
\* case is skipped (continue), blogger is fetched; without content the
\* platform is reported with zero counts, an error caught by the loop is
\* pushed to errors
syncPlatform(answer) ==
    /\ sync.pc = "loop" /\ sync.rest # <<>>
    /\ LET platform == Head(sync.rest)
           content == fetchBloggerContent(answer)
       IN sync' =
            IF platform # "blogger"
            THEN [sync EXCEPT !.rest = Tail(@)]
            ELSE IF syncBodyThrows(answer)
            THEN [sync EXCEPT !.rest = Tail(@),
                              !.results.errors = Append(@, platform)]
            ELSE IF content # <<>>
            THEN [sync EXCEPT !.pc = "index"]
            ELSE [sync EXCEPT !.rest = Tail(@),
                              !.results[platform] =
                                  [reported |-> TRUE, fetched |-> 0, processed |-> 0],
                              !.failed = IF answer = "empty" THEN @
                                         ELSE @ \cup {platform}]
    /\ ret' = NoRet
    /\ UNCHANGED <<ragIsInitialized, openai, chroma, mcpClient, collection,
                   remoteStore, adds, queryHistory, returnedIds, memInstalls>>
    /\ UNCHANGED removedDocs
    /\ UNCHANGED <<documents, socialMediaContent, lastSyncTime, personaResult>>
    /\ UNCHANGED <<mcpVars, chunkVars>>

\* processAndIndexContent calls ragService.addDocument for the post and
\* awaits it
processAndIndexContent(apiOk) ==
    /\ sync.pc = "index"
    /\ adds["p2"].pc = "idle"
    /\ ret.op # "addDocument"
    /\ addDocument("p2", "d1", apiOk)

\* addDocument has returned or thrown: on return the document is added to
\* the table and counted, an error is caught and logged; back in the loop
\* the platform is reported and its cache and sync time are set
platformIndexed ==
    /\ sync.pc = "index"
    /\ adds["p2"].pc = "idle"
    /\ ret.op = "addDocument" /\ ret.doc = "d1"
    /\ LET platform == Head(sync.rest)
           processed == IF ret.status = "ok" THEN 1 ELSE 0
       IN /\ documents' = IF ret.status = "ok" THEN documents \cup {"d1"}
                          ELSE documents
          /\ sync' = [sync EXCEPT !.pc = "loop", !.rest = Tail(@),
                                  !.results[platform] =
                                      [reported |-> TRUE, fetched |-> 1,
                                       processed |-> processed],
                                  !.results.totalProcessed = @ + processed,
                                  !.failed = IF ret.status = "ok" THEN @
                                             ELSE @ \cup {platform}]
          /\ socialMediaContent' = socialMediaContent \cup {platform}
          /\ lastSyncTime' = lastSyncTime \cup {platform}
    /\ ret' = NoRet
    /\ UNCHANGED <<ragIsInitialized, openai, chroma, mcpClient, collection,
                   remoteStore, adds, queryHistory, returnedIds, memInstalls>>
    /\ UNCHANGED removedDocs
    /\ UNCHANGED personaResult
    /\ UNCHANGED <<mcpVars, chunkVars>>

\* the loop is over: syncSocialMediaContent returns results
syncReturns ==
    /\ sync.pc = "loop" /\ sync.rest = <<>>
    /\ ret' = [op |-> "syncSocialMediaContent", status |-> "ok",
               platforms |-> sync.platforms, results |-> sync.results,
               failed |-> sync.failed]
    /\ sync' = NoSync
    /\ UNCHANGED <<ragIsInitialized, openai, chroma, mcpClient, collection,
                   remoteStore, adds, queryHistory, returnedIds, memInstalls>>
    /\ UNCHANGED removedDocs
    /\ UNCHANGED <<documents, socialMediaContent, lastSyncTime, personaResult>>
    /\ UNCHANGED <<mcpVars, chunkVars>>

\* the documents of the table that removePlatformContent selects
platformDocs(platform) == {d \in documents : platformOfDoc(d) = platform}

\* the in-process store after removeDocument of each of the documents
RECURSIVE removeEach(_, _)
removeEach(recs, ds) ==
    IF ds = {} THEN recs
    ELSE LET d == CHOOSE x \in ds : TRUE
         IN removeEach(removeByDocument(recs, d), ds \ {d})

\* removePlatformContent, were it to keep the platform's sync time
removePlatformContentKeepsSyncTime(platform, remoteOk) ==
    /\ ragIsInitialized
    /\ LET ds == platformDocs(platform)
       IN /\ collection' = IF collection.kind = "remote" THEN collection
                           ELSE [collection EXCEPT !.documents = removeEach(@, ds)]
          /\ remoteStore' = IF collection.kind = "remote"
                            THEN [remoteStore EXCEPT ![collection.name] =
                                     {h \in @ : h.documentId \notin ds}]
                            ELSE remoteStore
          /\ returnedIds' = returnedIds \ UNION {chunkIds(d) : d \in ds}
          /\ removedDocs' = removedDocs \cup
                 {d \in ds : /\ chunkIds(d) \cap returnedIds # {}
                             /\ \A p \in Procs : adds[p].doc # d}
          /\ documents' = documents \ ds
          /\ socialMediaContent' = socialMediaContent \ {platform}
          /\ UNCHANGED lastSyncTime
          /\ ret' = [op |-> "removePlatformContent", status |-> "ok",
                     platform |-> platform, count |-> Cardinality(ds)]
    /\ UNCHANGED <<ragIsInitialized, openai, chroma, mcpClient, adds, queryHistory,
                   memInstalls>>
    /\ UNCHANGED <<sync, personaResult>>
    /\ UNCHANGED <<mcpVars, chunkVars>>

\* removePlatformContent: each document of the platform is removed from
\* the store (ragService.removeDocument) and from the table, then the cache
\* and the sync time of the platform are deleted and the count is returned.
\* The first removeDocument that throws (a remote delete that fails) is
\* rethrown.  One document of the platform at most is in the table.
removePlatformContent(platform, remoteOk) ==
    /\ ragIsInitialized
    /\ LET ds == platformDocs(platform)
       IN IF ds # {} /\ collection.kind = "remote" /\ ~remoteOk
          THEN /\ ret' = [op |-> "removePlatformContent", status |-> "threw",
                          platform |-> platform, count |-> 0]
               /\ UNCHANGED <<collection, remoteStore, returnedIds, removedDocs,
                              documents, socialMediaContent, lastSyncTime>>
          ELSE /\ collection' = IF collection.kind = "remote" THEN collection
                                ELSE [collection EXCEPT
                                         !.documents = removeEach(@, ds)]
               /\ remoteStore' = IF collection.kind = "remote"
                                 THEN [remoteStore EXCEPT ![collection.name] =
                                          {h \in @ : h.documentId \notin ds}]
                                 ELSE remoteStore
               /\ returnedIds' = returnedIds \ UNION {chunkIds(d) : d \in ds}
               /\ removedDocs' = removedDocs \cup
                      {d \in ds : /\ chunkIds(d) \cap returnedIds # {}
                                  /\ \A p \in Procs : adds[p].doc # d}
               /\ documents' = documents \ ds
               /\ socialMediaContent' = socialMediaContent \ {platform}
               /\ lastSyncTime' = lastSyncTime \ {platform}
               /\ ret' = [op |-> "removePlatformContent", status |-> "ok",
                          platform |-> platform, count |-> Cardinality(ds)]
    /\ UNCHANGED <<ragIsInitialized, openai, chroma, mcpClient, adds, queryHistory,
                   memInstalls>>
    /\ UNCHANGED <<sync, personaResult>>
    /\ UNCHANGED <<mcpVars, chunkVars>>

\* the lists of platforms a sync is asked for
PlatformLists == {<<"blogger">>, <<"facebook">>, <<"blogger", "facebook">>,
                  <<"facebook", "blogger">>}

\* the persona service between uploads of d2: a sync and a removal are
\* served one after the other, the uploads of a user go on around them
NextPersona ==
    \/ \E stored \in (SUBSET Docs) \ {{}} : loadDocuments(stored)
    \/ \E apiKey \in BOOLEAN, chromaUp \in BOOLEAN : RAGinitialize(apiKey, chromaUp)
    \/ /\ sync.pc = "idle"
       /\ \E apiOk \in ApiAnswers : addDocument("p1", "d2", apiOk)
    \/ /\ sync.pc = "idle"
       /\ \E outcome \in {"ok", "other"} : addSettles("p1", outcome)
    \/ \E platforms \in PlatformLists : syncSocialMediaContent(platforms)
    \/ \E answer \in FetchAnswers : syncPlatform(answer)
    \/ \E apiOk \in ApiAnswers : processAndIndexContent(apiOk)
    \/ \E outcome \in {"ok", "other"} : addSettles("p2", outcome)
    \/ platformIndexed
    \/ syncReturns
    \/ /\ sync.pc = "idle"
       /\ \E platform \in Platforms,
             remoteOk \in (IF collection.kind = "remote" THEN BOOLEAN ELSE {TRUE}) :
               removePlatformContent(platform, remoteOk)

SpecPersona == Init /\ [][NextPersona]_vars

\* ------------------------------------------------------------------------
\* Properties of the RPC channel and of the handshake
\* ------------------------------------------------------------------------

Slots == 1..MaxCalls

Settled(c) == c.st \in {"resolved", "rejected"}

\* what a caller and the event loop can observe of a call
Observable(c) == [st |-> c.st, why |-> c.why, by |-> c.by, settles |-> c.settles,
                  listener |-> c.listener, timer |-> c.timer]

\* the step is a read of the worker's stdout, and the bytes it delivered
ReadStep == Len(stdoutPipe') < Len(stdoutPipe)
DataRead == SubSeq(stdoutPipe, 1, Len(stdoutPipe) - Len(stdoutPipe'))

\* the bytes hold (the start of) a response with this id
MentionsId(data, id) == \E k \in 1..Len(data) : data[k].t = "open" /\ data[k].id = id

\* the bytes hold a whole well-formed response line with this id
HasResponseLine(data, id) ==
    LET all == split(data, <<>>)
    IN  \E k \in 1..(Len(all) - 1) : JSONparse(all[k]).ok /\ JSONparse(all[k]).id = id

\* a call is pending, or was completed by the response with its own id, or
\* was rejected locally for one of the given reasons
CompletedProperly(c, local) ==
    \/ c.st = "pending"
    \/ c.st = "resolved" /\ c.why = "result" /\ c.by = c.id
    \/ c.st = "rejected" /\ c.why = "responseError" /\ c.by = c.id
    \/ c.st = "rejected" /\ c.why \in local

\* resolve and reject were invoked once in all for a settled callTool, never
\* for a pending one, and a settled callTool holds neither listener nor timer
SettledOnce(c) ==
    /\ c.settles <= 1
    /\ c.st = "pending" => c.settles = 0 /\ c.listener /\ c.timer
    /\ Settled(c) => c.settles = 1 /\ ~c.listener /\ ~c.timer

\* C1 as stated: under every interleaving of responses, chunk boundaries,
\* write failures and timeouts, each callTool is completed exactly once, and
\* the completion is the result, the error carried by the response, or a
\* timeout error.
C1_CompletedOnceThreeOutcomes ==
    \A s \in Slots : calls[s].kind = "callTool" =>
        SettledOnce(calls[s]) /\ CompletedProperly(calls[s], {"timeout"})

\* C1 as amended: ... the completion is the result, the error carried by the
\* response, a timeout error, or the error thrown while the request was
\* serialised and written; resolve/reject is invoked once per call.
C1_CompletedOnce ==
    \A s \in Slots : calls[s].kind = "callTool" =>
        SettledOnce(calls[s]) /\ CompletedProperly(calls[s], {"timeout", "writeError"})

\* three callTool calls were in flight and ended in the three ways: one
\* resolved, one rejected by its response, one timed out
C1_Witness ==
    \E a, b, c \in Slots :
        /\ calls[a].kind = "callTool" /\ calls[a].why = "result"
        /\ calls[b].kind = "callTool" /\ calls[b].why = "responseError"
        /\ calls[c].kind = "callTool" /\ calls[c].why = "timeout"

\* C2: the correlation ids of the calls issued to a worker strictly increase
\* (callTool and listTools alike); a call is completed by data only through
\* the response that carries its id; and a read that holds no response for a
\* pending call leaves that call as it was.
C2_OwnResponseOnly ==
    /\ [](\A s, t \in Slots :
            s < t /\ calls[t].kind # "none" => calls[s].kind # "none"
                                               /\ calls[s].id < calls[t].id)
    /\ [](\A s \in Slots : calls[s].kind # "none" =>
            CompletedProperly(calls[s], {"timeout", "writeError"}))
    /\ [][ReadStep =>
            \A s \in Slots :
                calls[s].st = "pending"
                /\ ~MentionsId(calls[s].buf \o DataRead, calls[s].id)
                => Observable(calls'[s]) = Observable(calls[s])]_vars

\* C3: a callTool that is pending when its timer fires is rejected with a
\* timeout error and keeps neither listener nor timer; nothing that arrives
\* later changes it; and a read that carries the late response leaves every
\* other pending call pending or completed by its own response.
C3_TimeoutIsolation ==
    /\ [](\A s \in Slots : calls[s].why = "timeout" =>
            calls[s].st = "rejected" /\ ~calls[s].listener /\ ~calls[s].timer)
    /\ [][\A s \in Slots :
            calls[s].kind = "callTool" /\ calls[s].st = "pending"
            /\ Settled(calls'[s]) /\ ~ReadStep
            => calls'[s].why = "timeout"]_vars
    /\ [][\A s \in Slots : calls[s].why = "timeout" =>
            Observable(calls'[s]) = Observable(calls[s])]_vars
    /\ [][ReadStep /\ (\E t \in Slots : calls[t].why = "timeout"
                                       /\ MentionsId(DataRead, calls[t].id))
          => \A j \in Slots : calls[j].st = "pending" =>
                \/ calls'[j].st = "pending"
                \/ /\ calls'[j].why \in {"result", "responseError"}
                   /\ calls'[j].by = calls[j].id]_vars

\* C4: every call issued to the worker, tools/call or tools/list, eventually
\* completes, by a response or else by its timeout.
C4_EveryCallCompletes ==
    \A s \in Slots : (calls[s].st = "pending") ~> Settled(calls[s])

\* C5: an unparseable line fails no call, and a read that (with what the
\* call has buffered) holds a whole well-formed response for a pending call
\* completes that call with that response, whatever else the read holds.
C5_MalformedLineSkipped ==
    /\ [](\A s \in Slots : calls[s].why # "parseError")
    /\ [][ReadStep =>
            \A s \in Slots :
                calls[s].st = "pending" /\ calls[s].listener
                /\ HasResponseLine(calls[s].buf \o DataRead, calls[s].id)
                => Settled(calls'[s]) /\ calls'[s].by = calls[s].id]_vars

\* C6: startServer resolves exactly when the readiness marker is the first
\* of the four handshake events, and then the server is marked ready; it
\* rejects exactly when spawn error, exit or timeout comes first, and at
\* that moment the server is not marked ready and the child has been
\* killed; once settled, the outcome never changes.
C6_HandshakeFirstEventWins ==
    /\ [](/\ firstEvent = "none" => started \in {"none", "pending"}
          /\ firstEvent = "ready" <=> started = "resolved"
          /\ firstEvent \in {"error", "exit", "timeout"} <=> started = "rejected"
          /\ started = "resolved" => isReady
          /\ started = "rejected" => killed)
    /\ [][/\ started = "pending" /\ started' = "rejected" => ~isReady' /\ killed'
          /\ started \in {"resolved", "rejected"} => started' = started]_vars

\* the start timed out before the marker came: rejected, not ready, killed
C6_Witness ==
    started = "rejected" /\ firstEvent = "timeout" /\ killed /\ ~isReady
    /\ proc = "running"

\* ------------------------------------------------------------------------
\* Properties of the vector store
\* ------------------------------------------------------------------------

\* handler p issues a call to the remote service in this step
RemoteIssued(p) ==
    /\ adds'[p].pc \in {"add", "recreate", "retry"}
    /\ adds'[p].pc # adds[p].pc

Downgraded == memInstalls > 0

documentOf(id) == CHOOSE d \in Docs : id \in chunkIds(d)

\* C7: a corruption-class failure of a remote add starts one recovery: the
\* collection is re-provisioned under an identifier other than the failed
\* collection's and the add is retried once; when the re-provisioning or
\* the retry fails the in-process store is installed; and once it is
\* installed, the store in use stays in-process and no step issues a call
\* to the remote service.
C7_OneRecoveryThenPermanentDowngrade ==
    /\ [][\A p \in Procs :
            /\ (adds[p].pc = "add" /\ adds'[p].pc = "recreate")
                   => adds[p].target # "padalayai_documents_new"
            /\ (adds[p].pc = "retry" /\ adds'[p].pc # "retry")
                   => adds'[p].pc = "idle"
            /\ (adds[p].pc \in {"recreate", "retry"} /\ adds'[p].pc = "idle"
                  /\ remoteStore' = remoteStore)
                   => collection'.kind = "memory"]_vars
    /\ [](Downgraded => collection.kind = "memory")
    /\ [][Downgraded => \A p \in Procs : ~RemoteIssued(p)]_vars

\* C8: the remote service failing every add with a corruption-class error,
\* every addDocument returns, the records of the documents whose add
\* returned are in the in-process store, and a search that is unfiltered or
\* filtered by their document returns them.
C8_FoundAfterCorruption ==
    /\ returnedIds # {} =>
          /\ collection.kind = "memory"
          /\ returnedIds \subseteq idsOf(collection.documents)
    /\ (ret.op = "search" /\ ret.status = "ok") =>
          \A id \in returnedIds :
              (ret.documentIds = {} \/ documentOf(id) \in ret.documentIds)
                  => id \in idsOf(ret.chunks)

\* C9: with several addDocument calls in flight on the remote collection,
\* at most one of them is in a recovery at a time and at most one recovery
\* is started, one in-process store at most is installed, that store holds
\* the records of every add that returned, and the store in use never
\* changes from in-process back to remote.
C9_SingleSerializedDowngrade ==
    /\ [](Cardinality({p \in Procs : adds[p].pc \in {"recreate", "retry"}}) <= 1)
    /\ [](memInstalls <= 1)
    /\ [](collection.kind = "memory" =>
              returnedIds \subseteq idsOf(collection.documents))
    /\ [][collection.kind = "memory" => collection'.kind = "memory"]_vars

\* C10: a query on an initialized service returns a record, whatever the
\* embeddings API, the remote store, the generation API and the tool process
\* answer.
C10_QueryNeverThrows ==
    ret.op = "query" => ret.status = "ok"

\* the outcomes of the tool call of a query that are failures
ToolFailures == {"noClient", "failed", "unparseable"}

C12_BlankQueryRejected ==
    /\ ret.op = "query" => Len(trimText(ret.query)) > 0
    /\ \A k \in 1..Len(queryHistory) : Len(trimText(queryHistory[k].query)) > 0

\* C13: a query filtered by exactly one document, that document having been
\* removed and not added again, returns a record with an empty context, no
\* sources and confidence 0, with or without a tool client.
C13_RemovedDocumentYieldsNothing ==
    (ret.op = "query" /\ ret.status = "ok"
        /\ \E d \in removedDocs : ret.documentIds = {d}) =>
            /\ ret.context = <<>>
            /\ ret.sources = <<>>
            /\ ret.confidence = 0

\* the records of a list that belong to other documents than d, in order
recordsOfOthers(docs, d) == SelectSeq(docs, LAMBDA r : r.documentId # d)

\* C14: on the in-process store a removeDocument returns without error,
\* leaves no record of the document, keeps every other record as it was and
\* in its place, and changes nothing when no record is of the document.
C14_RemoveFrame ==
    [][(collection.kind = "memory" /\ ret'.op = "removeDocument") =>
          /\ ret'.status = "ok"
          /\ collection'.kind = "memory"
          /\ \A k \in 1..Len(collection'.documents) :
                collection'.documents[k].documentId # ret'.doc
          /\ collection'.documents = recordsOfOthers(collection.documents, ret'.doc)
          /\ (\A k \in 1..Len(collection.documents) :
                  collection.documents[k].documentId # ret'.doc)
                => collection' = collection
          /\ remoteStore' = remoteStore /\ queryHistory' = queryHistory]_vars

\* a document that had been added was removed from the in-process store,
\* which still holds records of another document
C14_Witness ==
    /\ ret.op = "removeDocument" /\ ret.status = "ok"
    /\ collection.kind = "memory"
    /\ ret.doc \in removedDocs
    /\ collection.documents # <<>>

\* the records held by the store instances: the in-process store in use and
\* each remote collection
Instances ==
    {{collection.documents[k] : k \in 1..Len(collection.documents)}}
        \cup {remoteStore[n] : n \in DOMAIN remoteStore}

\* C15: the vectors held by one store instance all come from one embedding
\* provider and have one length.
C15_OneProviderPerStore ==
    \A held \in Instances : \A r1, r2 \in held :
        /\ r1.prov = r2.prov
        /\ Len(vectorOf(r1)) = Len(vectorOf(r2))

\* C16: every similarity that searchSimilarChunks returns is a number
\* between 0 and 1 (0 and 100 hundredths), on the in-process store whatever
\* the vectors and on the remote store whatever distance is reported.
C16_SimilarityInUnitInterval ==
    (ret.op = "search" /\ ret.status = "ok") =>
        \A k \in 1..Len(ret.chunks) :
            /\ ~ret.chunks[k].similarity.nan
            /\ ret.chunks[k].similarity.v >= 0
            /\ ret.chunks[k].similarity.v <= 100

\* the sum of the scores of a list of context items
RECURSIVE scoreSum(_)
scoreSum(items) ==
    IF items = <<>> THEN 0 ELSE Head(items).similarity.v + scoreSum(Tail(items))

\* c is s / n rounded to the nearest integer
IsRounded(c, s, n) == 2 * n * c - n <= 2 * s /\ 2 * s < 2 * n * c + n

\* C17: the confidence of a query record is the mean of the similarity scores
\* of the items of its context (chunks and tool items), rounded to
\* hundredths; it is 0 for an empty context and 0.90 for a context of one
\* item of similarity 0.9.
C17_ConfidenceIsMean ==
    (ret.op = "query" /\ ret.status = "ok") =>
        /\ ret.context = <<>> => ret.confidence = 0
        /\ ret.context # <<>> =>
              /\ \A k \in 1..Len(ret.context) : ~ret.context[k].similarity.nan
              /\ IsRounded(ret.confidence, scoreSum(ret.context), Len(ret.context))
        /\ (Len(ret.context) = 1 /\ ret.context[1].similarity = Number(90))
              => ret.confidence = 90


\* ------------------------------------------------------------------------
\* Properties of the chunker
\* ------------------------------------------------------------------------

\* C18: whatever the text, for every chunkSize >= 1 and every overlap >= 0,
\* overlap >= chunkSize included, chunkText terminates: every step of a call
\* that is inside the loop either returns or is a turn of the loop taken
\* below the end of the text that leaves start strictly greater than it
\* found it, so a call takes at most text.length turns.
C18_ChunkTextTerminates ==
    [][chunkPc = "loop" =>
          \/ chunkPc' = "returned"
          \/ /\ chunkPc' = "loop"
             /\ start < Len(inputText)
             /\ start' > start]_vars

\* a call with overlap >= chunkSize has gone through several windows and
\* has returned
C18_Witness ==
    /\ chunkPc = "returned"
    /\ chunkOverlap >= chunkSize
    /\ Len(chunkList) >= 2

\* the positions of the text that hold a character other than white space
NonWhitespace(t) == {i \in 0..Len(t) - 1 : t[i + 1] \notin Whitespace}

\* the positions that lie in the window of some returned chunk
Covered(list) == {i \in 0..MaxText : \E k \in 1..Len(list) : list[k].from <= i /\ i < list[k].to}

\* C19: for a text longer than chunkSize and 0 <= overlap < chunkSize, every
\* character of the text that is not white space lies in the span of some
\* chunk chunkText returns: nothing is skipped between the cut of one window
\* and the start of the next.
C19_NoTextSkipped ==
    /\ chunkPc = "returned"
    /\ Len(inputText) > chunkSize
    /\ chunkOverlap < chunkSize
    => NonWhitespace(inputText) \subseteq Covered(chunkList)

\* C20: a text no longer than chunkSize comes back as exactly one chunk, the
\* trimmed text, except that the empty text comes back as no chunk at all;
\* and no returned chunk is empty once trimmed, whatever the input.
C20_ShortTextIsOneTrimmedChunk ==
    chunkPc = "returned" =>
        /\ Len(inputText) <= chunkSize =>
               IF inputText = <<>> THEN chunkList = <<>>
               ELSE /\ Len(chunkList) = 1
                    /\ chunkList[1].chunk = strTrim(inputText)
        /\ \A k \in 1..Len(chunkList) : strTrim(chunkList[k].chunk) # <<>>

\* C30: whatever the text, the chunkSize >= 1 and the overlap, every chunk
\* chunkText returns is at most chunkSize characters long, also when a
\* separator begins exactly at the raw edge of the window.
C30_ChunkWithinChunkSize ==
    chunkPc = "returned" =>
        \A k \in 1..Len(chunkList) : Len(chunkList[k].chunk) <= chunkSize

\* ------------------------------------------------------------------------
\* Properties of the supervision of the worker
\* ------------------------------------------------------------------------

\* C21: a provider that fails to start (spawn error, premature exit or
\* startup timeout) does not make the start sequence throw: the sequence
\* completes, the failed provider is in the table and is reported as not
\* ready, and a provider whose worker signalled readiness is ready.
C21_FailedStartIsIsolated ==
    /\ started = "rejected" => isInitialized /\ servers /\ ~isReady
    /\ started = "resolved" => isInitialized /\ servers /\ isReady

\* C25: once startServer has settled, the watchers that lost the race no
\* longer change the server: a server whose start was rejected is never
\* marked ready afterwards, and the ready flag of a settled start is left
\* as the settlement found it.
C25_LosingWatchersAreInert ==
    /\ [](started = "rejected" => ~isReady)
    /\ [][started = "resolved" \/ started = "rejected" => isReady' = isReady]_vars

\* C26: a server is marked ready only while its worker is alive: once the
\* worker of a ready server has exited the server is no longer ready (or no
\* longer in the table), so that callTool refuses it.
C26_ReadyImpliesAlive ==
    servers /\ isReady => proc = "running"

\* C22: shutdown signals every worker in the table and empties the table,
\* it never throws, also when the worker has exited, and a second shutdown
\* (one that finds the table empty and the client not initialized) leaves
\* the client as the first one left it and sends no signal.
C22_ShutdownIdempotent ==
    [][ret'.op = "shutdown" /\ ret' # ret =>
          /\ ret'.status = "ok"
          /\ ~servers' /\ ~isInitialized'
          /\ ret'.signals = (IF servers THEN 1 ELSE 0)
          /\ servers => killed'
          /\ ~servers /\ ~isInitialized =>
                 /\ ret'.signals = 0
                 /\ UNCHANGED mcpVars]_vars

\* a second shutdown has run after the worker of a ready server had exited
C22_Witness ==
    /\ ret.op = "shutdown"
    /\ ret.nth = 2
    /\ ret.signals = 0
    /\ proc = "exited"
    /\ started = "resolved"
    /\ killed
    /\ ~servers /\ ~isInitialized

\* ------------------------------------------------------------------------
\* Properties of the store over sequences of operations
\* ------------------------------------------------------------------------

\* C27: over any sequence of add, remove and search, a downgrade from the
\* remote to the in-process store included, an unfiltered search with
\* maxResults above the number of records returns every record whose add
\* has returned and whose document has not been removed since.
C27_ReturnedRecordsStayFound ==
    /\ ret.op = "search"
    /\ ret.status = "ok"
    /\ ret.documentIds = {}
    /\ ret.maxResults > Len(AllChunks)
    => returnedIds \subseteq idsOf(ret.chunks)

\* C28: on the in-process store addDocument is idempotent: adding a
\* document that is already stored leaves the records as they were, and no
\* two stored records have the same chunk id.
C28_IndexingIdempotent ==
    collection.kind = "memory" =>
        \A i, j \in 1..Len(collection.documents) :
            i # j => collection.documents[i].id # collection.documents[j].id


\* ------------------------------------------------------------------------
\* Properties of the query history
\* ------------------------------------------------------------------------

\* C29: the history is append-only between clears: a step that is not a
\* clearQueryHistory keeps every stored record as it is, a query that
\* returns adds exactly one record under an id no stored record has, and a
\* query that throws adds none
C29_HistoryAppendOnly ==
    [][/\ ret'.op # "clearQueryHistory" =>
             /\ Len(queryHistory') >= Len(queryHistory)
             /\ \A k \in 1..Len(queryHistory) : queryHistory'[k] = queryHistory[k]
       /\ ret'.op = "query" /\ ret'.status = "ok" =>
             /\ Len(queryHistory') = Len(queryHistory) + 1
             /\ queryHistory'[Len(queryHistory')].id = ret'.id
             /\ \A k \in 1..Len(queryHistory) : queryHistory[k].id # ret'.id
       /\ ret'.op = "query" /\ ret'.status = "threw" =>
             queryHistory' = queryHistory]_vars

\* C29, apart from the post-processing of queryDigitalPersona
C29_AppendOnlyBeforePostProcessing ==
    [][ret'.op # "queryDigitalPersona" =>
       /\ ret'.op # "clearQueryHistory" =>
             /\ Len(queryHistory') >= Len(queryHistory)
             /\ \A k \in 1..Len(queryHistory) : queryHistory'[k] = queryHistory[k]
       /\ ret'.op = "query" /\ ret'.status = "ok" =>
             /\ Len(queryHistory') = Len(queryHistory) + 1
             /\ queryHistory'[Len(queryHistory')].id = ret'.id
             /\ \A k \in 1..Len(queryHistory) : queryHistory[k].id # ret'.id
       /\ ret'.op = "query" /\ ret'.status = "threw" =>
             queryHistory' = queryHistory]_vars

\* a stored record whose sources queryDigitalPersona has rewritten
C29_StoredRecordRewritten ==
    /\ ret.op = "queryDigitalPersona"
    /\ \E k \in 1..Len(queryHistory) :
          /\ queryHistory[k].id = ret.id
          /\ \E i \in DOMAIN queryHistory[k].sources :
                queryHistory[k].sources[i].platform = "document"

\* ------------------------------------------------------------------------
\* Properties of the persona service
\* ------------------------------------------------------------------------

\* the platforms of a list
platformsOf(list) == {list[k] : k \in 1..Len(list)}

\* C23: when syncSocialMediaContent returns, every platform of the
\* requested list whose fetch or indexing failed is named by an entry of
\* errors, and every platform of the list is reported or named in errors
C23_ErrorsCollectedPerSource ==
    ret.op = "syncSocialMediaContent" =>
        /\ \A p \in ret.failed : p \in platformsOf(ret.results.errors)
        /\ \A p \in platformsOf(ret.platforms) :
              ret.results[p].reported \/ p \in platformsOf(ret.results.errors)

\* C23, the part that a failure does not end the loop: every platform of
\* the list that has a case in the switch is reported
C23_SupportedPlatformsReported ==
    ret.op = "syncSocialMediaContent" =>
        \A p \in platformsOf(ret.platforms) \cap {"blogger"} : ret.results[p].reported

\* the records of documents of a platform that the store in use holds
storeInUse ==
    IF collection.kind = "remote" THEN remoteStore[collection.name]
    ELSE {collection.documents[k] : k \in 1..Len(collection.documents)}

====
